---------------------------- MODULE Spec2Model ----------------------------
(***************************************************************************)
(* Velocity rule evaluation of the AML rule engine: the sequential         *)
(* VelocityProcessor, the worker-pool WorkerVelocityProcessor and the      *)
(* fan-out/fan-in ConcurrentVelocityProcessor.                             *)
(*                                                                         *)
(* A Transaction is modelled by the two fields the velocity rule reads,    *)
(* UserID and CreatedAt; Amount and Country are never read by this code.   *)
(* A uuid is a positive integer (0 is the zero uuid), a time.Time and a    *)
(* time.Duration are integers counted in the same unit; the values are far  *)
(* from the int64 range, where Time.Sub would saturate.                    *)
(***************************************************************************)
EXTENDS Integers, Sequences, FiniteSets, Bags, TLC

(***************************************************************************)
(* Bounds of the model.                                                    *)
(***************************************************************************)
MaxUsers == 2
MaxTime == 1
MaxTx == 3
MaxDuration == 1
MaxThreshold == 1
MaxPeriods == 1
MaxWorkers == 2
MaxCap == 1
LiveMaxTx == 2
RuleMaxTx == 3
RuleMaxTime == 2
RuleMaxDuration == 1
RuleMaxThreshold == 2
RuleMaxPeriods == 2
MaxValidators == 2
MaxAdds == 2

(***************************************************************************)
(* Program constants.                                                      *)
(***************************************************************************)
DefaultWorkerCount == 4
QueueCapacity == 1000

Users == 1..MaxUsers
Times == 0..MaxTime
Durations == 0..MaxDuration
Thresholds == 0..MaxThreshold

NewVelocityPeriod(period, threshold) ==
    [Duration |-> period, Threshold |-> threshold]

Transaction == [UserID : Users, CreatedAt : Times]
VelocityPeriod == {NewVelocityPeriod(d, t) : d \in Durations, t \in Thresholds}

SeqsUpTo(S, n) == UNION {[1..k -> S] : k \in 0..n}

NoJob == [UserID |-> 0, Transactions |-> <<>>]
NoResult == [UserID |-> 0, HasViolation |-> FALSE]

(***************************************************************************)
(* The grouping loop                                                       *)
(*   for _, tx := range transactions {                                     *)
(*       userTransactions[tx.UserID] = append(userTransactions[...], tx) } *)
(* started from the map m.                                                 *)
(***************************************************************************)
RECURSIVE groupByUser(_, _)
groupByUser(txs, m) ==
    IF txs = <<>> THEN m
    ELSE LET tx == Head(txs)
             m2 == [u \in DOMAIN m \cup {tx.UserID} |->
                      IF u = tx.UserID
                      THEN IF u \in DOMAIN m THEN Append(m[u], tx) ELSE <<tx>>
                      ELSE m[u]]
         IN groupByUser(Tail(txs), m2)

EmptyMap == [u \in {} |-> <<>>]

(***************************************************************************)
(* sort.Slice(txs, func(i, j) bool { return txs[i].CreatedAt.Before(...) })*)
(* The result is ascending in CreatedAt.  sort.Slice is not stable, but    *)
(* two transactions of one user with equal CreatedAt are equal here, so    *)
(* the sorted slice is unique.                                             *)
(***************************************************************************)
RECURSIVE insertByCreatedAt(_, _)
insertByCreatedAt(tx, s) ==
    IF s = <<>> THEN <<tx>>
    ELSE IF tx.CreatedAt < Head(s).CreatedAt
         THEN <<tx>> \o s
         ELSE <<Head(s)>> \o insertByCreatedAt(tx, Tail(s))

RECURSIVE sortByCreatedAt(_)
sortByCreatedAt(txs) ==
    IF txs = <<>> THEN <<>>
    ELSE insertByCreatedAt(Head(txs), sortByCreatedAt(Tail(txs)))

(***************************************************************************)
(* Go slices.  A slice is a view of an array: the array it points into,    *)
(* the position of its first element there (off, 1-based) and its          *)
(* capacity; its length is the length of its contents.  The arrays are the *)
(* caller's ("caller", whose contents are the sequence transactions) and   *)
(* arrays allocated by append ("heap", each owned by the one slice that    *)
(* append returned).  The model's Transaction has no pointer field the     *)
(* code writes through, so a copied element shares nothing.                *)
(***************************************************************************)
\* the zero value of []Transaction
NilSlice == [array |-> "nil", off |-> 0, cap |-> 0]

\* userTransactions[userID]: a map read gives the zero value for a missing key
sliceOf(h, userID) == IF userID \in DOMAIN h THEN h[userID] ELSE NilSlice

\* runtime.growslice for short slices: twice the old capacity, or what is needed
growCap(cap, needed) == IF 2 * cap >= needed THEN 2 * cap ELSE needed

\* append(s, tx), the slice returned: s itself, one longer, when there is
\* room in its array; otherwise a slice over a newly allocated array
appendHeader(s, len) ==
    IF len < s.cap THEN s
    ELSE [array |-> "heap", off |-> 1, cap |-> growCap(s.cap, len + 1)]

\* append(s, tx), what it leaves in the caller's array: with room, tx is
\* written into s's array right after s's last element
appendWrite(input, s, len, tx) ==
    IF len < s.cap /\ s.array = "caller"
    THEN [input EXCEPT ![s.off + len] = tx]
    ELSE input

(***************************************************************************)
(* One iteration of the grouping loop on the i-th element of the caller's  *)
(* slice, and the whole loop from the i-th element on: the map's contents  *)
(* (m), the map's slices (h) and the caller's array (input) afterwards.    *)
(***************************************************************************)
groupStep(i, m, h, input) ==
    LET tx == input[i]
        s == sliceOf(h, tx.UserID)
        len == IF tx.UserID \in DOMAIN m THEN Len(m[tx.UserID]) ELSE 0
    IN [m |-> groupByUser(<<tx>>, m),
        slices |-> [u \in DOMAIN h \cup {tx.UserID} |->
                      IF u = tx.UserID THEN appendHeader(s, len) ELSE h[u]],
        input |-> appendWrite(input, s, len, tx)]

RECURSIVE groupLoop(_, _, _, _)
groupLoop(i, m, h, input) ==
    IF i > Len(input) THEN [m |-> m, slices |-> h, input |-> input]
    ELSE LET st == groupStep(i, m, h, input)
         IN groupLoop(i + 1, st.m, st.slices, st.input)

(***************************************************************************)
(* sort.Slice(txs, ...) sorts in place: what it leaves in the caller's     *)
(* array when txs is the slice s with contents txs.  A slice over the      *)
(* caller's array rewrites the positions it covers; a slice over an array  *)
(* of its own leaves the caller's array as it is.                          *)
(***************************************************************************)
sortWrite(input, s, txs) ==
    IF s.array = "caller"
    THEN [i \in 1..Len(input) |->
            IF i >= s.off /\ i < s.off + Len(txs)
            THEN sortByCreatedAt(txs)[i - s.off + 1]
            ELSE input[i]]
    ELSE input

\* the sorts of the sequential flagging loop, one user after the other
RECURSIVE sortedInPlace(_, _, _, _)
sortedInPlace(input, h, m, U) ==
    IF U = {} THEN input
    ELSE LET u == CHOOSE x \in U : TRUE
         IN sortedInPlace(sortWrite(input, sliceOf(h, u), m[u]), h, m, U \ {u})

(***************************************************************************)
(* VelocityProcessor (sequential).  Sequences are 1-based: left and right  *)
(* are the Go indices plus one.                                            *)
(***************************************************************************)
RECURSIVE VelocityProcessor_advanceLeft(_, _, _, _)
VelocityProcessor_advanceLeft(txs, left, right, period) ==
    IF left <= right /\ txs[right].CreatedAt - txs[left].CreatedAt > period.Duration
    THEN VelocityProcessor_advanceLeft(txs, left + 1, right, period)
    ELSE left

RECURSIVE VelocityProcessor_slide(_, _, _, _)
VelocityProcessor_slide(txs, left, right, period) ==
    IF right > Len(txs) THEN FALSE
    ELSE LET l == VelocityProcessor_advanceLeft(txs, left, right, period)
             windowSize == right - l + 1
         IN IF windowSize > period.Threshold THEN TRUE
            ELSE VelocityProcessor_slide(txs, l, right + 1, period)

\* Mutation: the window is compared with >= instead of >.
VelocityProcessor_hasViolatedVelocity_AtThreshold(txs, period) ==
    VelocityProcessor_slide(txs, 1, 1, [period EXCEPT !.Threshold = @ - 1])

VelocityProcessor_hasViolatedVelocity(txs, period) ==
    VelocityProcessor_slide(txs, 1, 1, period)

RECURSIVE VelocityProcessor_anyPeriod(_, _)
VelocityProcessor_anyPeriod(txs, periods) ==
    IF periods = <<>> THEN FALSE
    ELSE IF VelocityProcessor_hasViolatedVelocity(txs, Head(periods)) THEN TRUE
         ELSE VelocityProcessor_anyPeriod(txs, Tail(periods))

VelocityProcessor_hasViolatedVelocityPeriods(periods, txs) ==
    VelocityProcessor_anyPeriod(txs, periods)

\* for userID, txs := range userTransactions { sort.Slice(...); if ... }
VelocityProcessor_flagUsers(periods, m) ==
    {userID \in DOMAIN m :
          VelocityProcessor_hasViolatedVelocityPeriods(
              periods, sortByCreatedAt(m[userID]))}

VelocityProcessor_Process(periods, txs) ==
    VelocityProcessor_flagUsers(periods, groupByUser(txs, EmptyMap))

(***************************************************************************)
(* WorkerVelocityProcessor (worker pool).                                  *)
(***************************************************************************)
\* Mutation: the worker count is stored as given.
NewWorkerVelocityProcessor_Unclamped(periods, workerCount) ==
    [Periods |-> periods, WorkerCount |-> workerCount]

NewWorkerVelocityProcessor(periods, workerCount) ==
    [Periods |-> periods,
     WorkerCount |-> IF workerCount <= 0 THEN DefaultWorkerCount ELSE workerCount]

RECURSIVE WorkerVelocityProcessor_advanceLeft(_, _, _, _)
WorkerVelocityProcessor_advanceLeft(txs, left, right, period) ==
    IF left <= right /\ txs[right].CreatedAt - txs[left].CreatedAt > period.Duration
    THEN WorkerVelocityProcessor_advanceLeft(txs, left + 1, right, period)
    ELSE left

RECURSIVE WorkerVelocityProcessor_slide(_, _, _, _)
WorkerVelocityProcessor_slide(txs, left, right, period) ==
    IF right > Len(txs) THEN FALSE
    ELSE LET l == WorkerVelocityProcessor_advanceLeft(txs, left, right, period)
             windowSize == right - l + 1
         IN IF windowSize > period.Threshold THEN TRUE
            ELSE WorkerVelocityProcessor_slide(txs, l, right + 1, period)

\* Mutation: only the window that ends at the last transaction is measured.
WorkerVelocityProcessor_hasViolatedVelocity_LastWindow(txs, period) ==
    /\ Len(txs) > 0
    /\ Len(txs) - WorkerVelocityProcessor_advanceLeft(txs, 1, Len(txs), period) + 1
           > period.Threshold

WorkerVelocityProcessor_hasViolatedVelocity(txs, period) ==
    WorkerVelocityProcessor_slide(txs, 1, 1, period)

RECURSIVE WorkerVelocityProcessor_anyPeriod(_, _)
WorkerVelocityProcessor_anyPeriod(txs, periods) ==
    IF periods = <<>> THEN FALSE
    ELSE IF WorkerVelocityProcessor_hasViolatedVelocity(txs, Head(periods)) THEN TRUE
         ELSE WorkerVelocityProcessor_anyPeriod(txs, Tail(periods))

WorkerVelocityProcessor_hasViolatedVelocityPeriods(periods, txs) ==
    WorkerVelocityProcessor_anyPeriod(txs, periods)

\* Mutation: the job's transactions are scanned without sorting them.
WorkerVelocityProcessor_processUser_Unsorted(periods, userID, txs) ==
    [UserID |-> userID,
     HasViolation |-> WorkerVelocityProcessor_hasViolatedVelocityPeriods(periods, txs)]

WorkerVelocityProcessor_processUser(periods, userID, txs) ==
    [UserID |-> userID,
     HasViolation |-> WorkerVelocityProcessor_hasViolatedVelocityPeriods(
                          periods, sortByCreatedAt(txs))]

(***************************************************************************)
(* ConcurrentVelocityProcessor (fan-out / fan-in pipeline).                *)
(***************************************************************************)
NewConcurrentVelocityProcessor(periods, workerCount) ==
    [Periods |-> periods, WorkerCount |-> workerCount]

RECURSIVE ConcurrentVelocityProcessor_advanceLeft(_, _, _, _)
ConcurrentVelocityProcessor_advanceLeft(txs, left, right, period) ==
    IF left <= right /\ txs[right].CreatedAt - txs[left].CreatedAt > period.Duration
    THEN ConcurrentVelocityProcessor_advanceLeft(txs, left + 1, right, period)
    ELSE left

RECURSIVE ConcurrentVelocityProcessor_slide(_, _, _, _)
ConcurrentVelocityProcessor_slide(txs, left, right, period) ==
    IF right > Len(txs) THEN FALSE
    ELSE LET l == ConcurrentVelocityProcessor_advanceLeft(txs, left, right, period)
             windowSize == right - l + 1
         IN IF windowSize > period.Threshold THEN TRUE
            ELSE ConcurrentVelocityProcessor_slide(txs, l, right + 1, period)

ConcurrentVelocityProcessor_hasViolatedVelocity(txs, period) ==
    ConcurrentVelocityProcessor_slide(txs, 1, 1, period)

RECURSIVE ConcurrentVelocityProcessor_anyPeriod(_, _)
ConcurrentVelocityProcessor_anyPeriod(txs, periods) ==
    IF periods = <<>> THEN FALSE
    ELSE IF ConcurrentVelocityProcessor_hasViolatedVelocity(txs, Head(periods)) THEN TRUE
         ELSE ConcurrentVelocityProcessor_anyPeriod(txs, Tail(periods))

\* Mutation: the user must violate every period instead of any period.
ConcurrentVelocityProcessor_hasViolatedVelocityPeriods_All(periods, txs) ==
    \A k \in 1..Len(periods) :
        ConcurrentVelocityProcessor_hasViolatedVelocity(txs, periods[k])

ConcurrentVelocityProcessor_hasViolatedVelocityPeriods(periods, txs) ==
    ConcurrentVelocityProcessor_anyPeriod(txs, periods)

ConcurrentVelocityProcessor_processUser(periods, userID, txs) ==
    [UserID |-> userID,
     HasViolation |-> ConcurrentVelocityProcessor_hasViolatedVelocityPeriods(
                          periods, sortByCreatedAt(txs))]

(***************************************************************************)
(* State of one Process call.                                              *)
(*   evaluator        which of the three processors is called              *)
(*   workerCountArg   the workerCount handed to the constructor            *)
(*   Periods, WorkerCount   the processor's fields after construction      *)
(*   transactions     the caller's batch                                   *)
(*   cancelled        ctx.Done() is closed                                 *)
(*   pc               the calling goroutine: "start", "aggregate", "done"  *)
(*   userTransactions the grouping map                                     *)
(*   pending          keys of the map the sending range loop has not       *)
(*                    visited yet (Go visits them in any order)            *)
(*   producer         the job sending goroutine: "idle", "group", "send",  *)
(*                    "exit"                                               *)
(*   userJobs, jobsClosed, jobCap      the job channel                     *)
(*   results, resultsClosed, resCap    the result channel                  *)
(*   workers          the bag of the worker goroutines' local states: pc   *)
(*                    "recv", "select", "send", "exit", the job held and   *)
(*                    the result computed.  The goroutines of one pool run *)
(*                    the same closure and have no identity of their own.  *)
(*   coordinator      the wg.Wait goroutine: "idle", "wait", "exit"        *)
(*   flaggedUsers     the map being built, then returned                   *)
(* History of the call, kept for the properties only:                      *)
(*   enqueued, received, produced   per user, the number of UserJobs sent  *)
(*                    on the job channel, of UserJobs received by workers, *)
(*                    of UserResults sent on the result channel            *)
(*   jobsCloses, resultsCloses      number of close() calls per channel    *)
(*   panicked         a send on a closed channel or a second close ran     *)
(*   lateJobs         the users whose UserJob a worker received after the  *)
(*                    context had been cancelled                           *)
(* Memory:                                                                 *)
(*   transactions     is the contents of the caller's array                *)
(*   slices           per key of the grouping map, the slice stored there  *)
(*                    (array, off, cap); its contents are                  *)
(*                    userTransactions[key].  A UserJob carries a copy of  *)
(*                    this slice, so it views the same array.              *)
(* Outside one call:                                                       *)
(*   calls, firstResult   which call of Process this is on the processor,  *)
(*                    and what the first call returned                     *)
(*   validators, processors, added   the slice handed to NewRuleEngine,    *)
(*                    the engine's collection, the processors added so far *)
(***************************************************************************)
VARIABLES evaluator, workerCountArg, Periods, WorkerCount, transactions,
          cancelled, pc, userTransactions, pending, producer,
          userJobs, jobsClosed, jobCap, results, resultsClosed, resCap,
          workers, coordinator, flaggedUsers,
          enqueued, received, produced, jobsCloses, resultsCloses, panicked,
          lateJobs, slices,
          calls, firstResult, validators, processors, added

vars == <<evaluator, workerCountArg, Periods, WorkerCount, transactions,
          cancelled, pc, userTransactions, pending, producer,
          userJobs, jobsClosed, jobCap, results, resultsClosed, resCap,
          workers, coordinator, flaggedUsers,
          enqueued, received, produced, jobsCloses, resultsCloses, panicked,
          lateJobs, slices,
          calls, firstResult, validators, processors, added>>

config == <<evaluator, workerCountArg, Periods, WorkerCount, transactions>>
outside == <<calls, firstResult, validators, processors, added>>

WorkerCountArgs == (-1)..MaxWorkers
\* make(chan UserJob, 1000): the capacity of the pipeline's queues is drawn
\* from the small capacities and the program's own.
PipelineCapacities == (1..MaxCap) \cup {QueueCapacity}

Batches == SeqsUpTo(Transaction, MaxTx)
PeriodLists == SeqsUpTo(VelocityPeriod, MaxPeriods)

NoneYet == [u \in Users |-> 0]

NotStarted ==
    /\ cancelled = FALSE
    /\ pc = "start"
    /\ userTransactions = EmptyMap
    /\ pending = {}
    /\ producer = "idle"
    /\ userJobs = <<>>
    /\ jobsClosed = FALSE
    /\ results = <<>>
    /\ resultsClosed = FALSE
    /\ workers = EmptyBag
    /\ coordinator = "idle"
    /\ flaggedUsers = {}
    /\ enqueued = NoneYet
    /\ received = NoneYet
    /\ produced = NoneYet
    /\ jobsCloses = 0
    /\ resultsCloses = 0
    /\ panicked = FALSE
    /\ lateJobs = {}
    /\ slices = EmptyMap

InitSequential ==
    /\ evaluator = "sequential"
    /\ workerCountArg = 0 /\ WorkerCount = 0
    /\ jobCap = 0 /\ resCap = 0

InitWorker ==
    /\ evaluator = "worker"
    /\ workerCountArg \in WorkerCountArgs
    /\ WorkerCount = NewWorkerVelocityProcessor(Periods, workerCountArg).WorkerCount
    /\ jobCap = 0 /\ resCap = 0

InitPipeline ==
    /\ evaluator = "pipeline"
    /\ workerCountArg \in WorkerCountArgs
    /\ WorkerCount = NewConcurrentVelocityProcessor(Periods, workerCountArg).WorkerCount
    /\ jobCap \in PipelineCapacities
    /\ resCap \in PipelineCapacities

\* the first call on a fresh processor; no rule engine is involved
FirstCall == calls = 1 /\ firstResult = {}
NoEngine == validators = <<>> /\ processors = <<>> /\ added = <<>>

Init ==
    /\ transactions \in Batches
    /\ Periods \in PeriodLists
    /\ (InitSequential \/ InitWorker \/ InitPipeline)
    /\ NotStarted
    /\ FirstCall
    /\ NoEngine

IdleWorker == [pc |-> "recv", job |-> NoJob, result |-> NoResult]
ExitedWorker == [pc |-> "exit", job |-> NoJob, result |-> NoResult]

\* for i := 0; i < v.WorkerCount; i++ { wg.Add(1); go ... }
StartedWorkers ==
    IF WorkerCount > 0 THEN [w \in {IdleWorker} |-> WorkerCount] ELSE EmptyBag

\* the worker in local state w moves to local state w2
WorkerMoves(w, w2) == (workers (-) SetToBag({w})) (+) SetToBag({w2})

(***************************************************************************)
(* The caller's context is cancelled.  Nothing in this code cancels it, so *)
(* it may happen at any moment up to the return of Process.                *)
(***************************************************************************)
Cancel ==
    /\ ~cancelled
    /\ pc # "done"
    /\ cancelled' = TRUE
    /\ UNCHANGED <<config, outside, pc, userTransactions, pending, producer,
                   userJobs, jobsClosed, jobCap, results, resultsClosed,
                   resCap, workers, coordinator, flaggedUsers, enqueued,
                   received, produced, jobsCloses, resultsCloses, panicked,
                   lateJobs, slices>>

(***************************************************************************)
(* VelocityProcessor.Process: sequential, ignores ctx.  First the grouping *)
(* loop, then the loop that sorts and scans each user's slice in place.    *)
(***************************************************************************)
\* Mutation: the map entry is assigned the transaction instead of appended to.
Sequential_Group_Overwrite ==
    /\ evaluator = "sequential"
    /\ pc = "start"
    /\ userTransactions' =
          [u \in DOMAIN groupByUser(transactions, EmptyMap) |->
              LET txs == groupByUser(transactions, EmptyMap)[u]
              IN <<txs[Len(txs)]>>]
    /\ slices' = groupLoop(1, EmptyMap, EmptyMap, transactions).slices
    /\ flaggedUsers' = {}
    /\ pc' = "evaluate"
    /\ UNCHANGED <<config, outside, lateJobs, cancelled, pending, producer,
                   userJobs, jobsClosed, jobCap, results, resultsClosed,
                   resCap, workers, coordinator, enqueued, received, produced,
                   jobsCloses, resultsCloses, panicked>>

Sequential_Group ==
    /\ evaluator = "sequential"
    /\ pc = "start"
    /\ userTransactions' = groupLoop(1, EmptyMap, EmptyMap, transactions).m
    /\ slices' = groupLoop(1, EmptyMap, EmptyMap, transactions).slices
    /\ transactions' = groupLoop(1, EmptyMap, EmptyMap, transactions).input
    /\ flaggedUsers' = {}
    /\ pc' = "evaluate"
    /\ UNCHANGED <<evaluator, workerCountArg, Periods, WorkerCount, outside, cancelled, pending, producer, userJobs,
                   jobsClosed, jobCap, results, resultsClosed, resCap, workers,
                   coordinator, enqueued, received, produced, jobsCloses,
                   resultsCloses, panicked, lateJobs>>

Sequential_Process ==
    /\ evaluator = "sequential"
    /\ pc = "evaluate"
    /\ userTransactions' = [u \in DOMAIN userTransactions |->
                               sortByCreatedAt(userTransactions[u])]
    /\ transactions' = sortedInPlace(transactions, slices, userTransactions,
                                     DOMAIN userTransactions)
    /\ flaggedUsers' = VelocityProcessor_flagUsers(Periods, userTransactions)
    /\ pc' = "done"
    /\ UNCHANGED <<evaluator, workerCountArg, Periods, WorkerCount, outside,
                   cancelled, pending, producer, userJobs, jobsClosed, jobCap,
                   results, resultsClosed, resCap, workers, coordinator,
                   enqueued, received, produced, jobsCloses, resultsCloses,
                   panicked, lateJobs, slices>>

(***************************************************************************)
(* WorkerVelocityProcessor.Process, steps 1 to 5: group, make the two      *)
(* channels, start the workers, the job sender and the coordinator, make   *)
(* flaggedUsers.  The goroutines take their first step in later actions.   *)
(***************************************************************************)
\* Mutation: both channels are made with a fixed capacity of 1.
Worker_Start_FixedCapacity ==
    /\ evaluator = "worker"
    /\ pc = "start"
    /\ userTransactions' = groupLoop(1, EmptyMap, EmptyMap, transactions).m
    /\ slices' = groupLoop(1, EmptyMap, EmptyMap, transactions).slices
    /\ transactions' = groupLoop(1, EmptyMap, EmptyMap, transactions).input
    /\ jobCap' = 1
    /\ resCap' = 1
    /\ userJobs' = <<>> /\ jobsClosed' = FALSE
    /\ results' = <<>> /\ resultsClosed' = FALSE
    /\ workers' = StartedWorkers
    /\ pending' = DOMAIN userTransactions'
    /\ producer' = "send"
    /\ coordinator' = "wait"
    /\ flaggedUsers' = {}
    /\ pc' = "aggregate"
    /\ enqueued' = NoneYet /\ received' = NoneYet /\ produced' = NoneYet
    /\ jobsCloses' = 0 /\ resultsCloses' = 0
    /\ lateJobs' = {}
    /\ UNCHANGED <<evaluator, workerCountArg, Periods, WorkerCount, outside, cancelled, panicked>>

Worker_Start ==
    /\ evaluator = "worker"
    /\ pc = "start"
    /\ userTransactions' = groupLoop(1, EmptyMap, EmptyMap, transactions).m
    /\ slices' = groupLoop(1, EmptyMap, EmptyMap, transactions).slices
    /\ transactions' = groupLoop(1, EmptyMap, EmptyMap, transactions).input
    /\ jobCap' = Cardinality(DOMAIN userTransactions')
    /\ resCap' = Cardinality(DOMAIN userTransactions')
    /\ userJobs' = <<>> /\ jobsClosed' = FALSE
    /\ results' = <<>> /\ resultsClosed' = FALSE
    /\ workers' = StartedWorkers
    /\ pending' = DOMAIN userTransactions'
    /\ producer' = "send"
    /\ coordinator' = "wait"
    /\ flaggedUsers' = {}
    /\ pc' = "aggregate"
    /\ enqueued' = NoneYet /\ received' = NoneYet /\ produced' = NoneYet
    /\ jobsCloses' = 0 /\ resultsCloses' = 0
    /\ lateJobs' = {}
    /\ UNCHANGED <<evaluator, workerCountArg, Periods, WorkerCount, outside, cancelled, panicked>>

\* case userJobs <- UserJob{UserID: userID, Transactions: txs}
\* (a send on a closed channel is ready at once, and panics)
Worker_SendJob(userID) ==
    /\ evaluator = "worker"
    /\ producer = "send"
    /\ userID \in pending
    /\ jobsClosed \/ Len(userJobs) < jobCap
    /\ userJobs' = IF jobsClosed THEN userJobs
                   ELSE Append(userJobs, [UserID |-> userID,
                                          Transactions |-> userTransactions[userID]])
    /\ enqueued' = IF jobsClosed THEN enqueued
                   ELSE [enqueued EXCEPT ![userID] = @ + 1]
    /\ panicked' = (panicked \/ jobsClosed)
    /\ pending' = pending \ {userID}
    /\ UNCHANGED <<config, outside, cancelled, pc, userTransactions, producer,
                   jobsClosed, jobCap, results, resultsClosed, resCap, workers,
                   coordinator, flaggedUsers, received, produced, jobsCloses,
                   resultsCloses, lateJobs, slices>>

\* case <-ctx.Done(): return, and the deferred close(userJobs)
Worker_SendJobCancelled ==
    /\ evaluator = "worker"
    /\ producer = "send"
    /\ pending # {}
    /\ cancelled
    /\ producer' = "exit"
    /\ jobsClosed' = TRUE
    /\ jobsCloses' = jobsCloses + 1
    /\ panicked' = (panicked \/ jobsClosed)
    /\ UNCHANGED <<config, outside, cancelled, pc, userTransactions, pending,
                   userJobs, jobCap, results, resultsClosed, resCap, workers,
                   coordinator, flaggedUsers, enqueued, received, produced,
                   resultsCloses, lateJobs, slices>>

\* the range loop is over: the deferred close(userJobs)
Worker_CloseJobs ==
    /\ evaluator = "worker"
    /\ producer = "send"
    /\ pending = {}
    /\ producer' = "exit"
    /\ jobsClosed' = TRUE
    /\ jobsCloses' = jobsCloses + 1
    /\ panicked' = (panicked \/ jobsClosed)
    /\ UNCHANGED <<config, outside, cancelled, pc, userTransactions, pending,
                   userJobs, jobCap, results, resultsClosed, resCap, workers,
                   coordinator, flaggedUsers, enqueued, received, produced,
                   resultsCloses, lateJobs, slices>>

\* Mutation: the job is read and left in the queue.
Worker_Receive_LeavesJob(w) ==
    /\ evaluator = "worker"
    /\ w \in BagToSet(workers)
    /\ w.pc = "recv"
    /\ userJobs # <<>>
    /\ workers' = WorkerMoves(w, [pc |-> "select", job |-> Head(userJobs),
                                   result |-> NoResult])
    /\ received' = [received EXCEPT ![Head(userJobs).UserID] = @ + 1]
    /\ lateJobs' = IF cancelled THEN lateJobs \cup {Head(userJobs).UserID}
                   ELSE lateJobs
    /\ UNCHANGED <<config, outside, cancelled, pc, userTransactions, pending,
                   producer, userJobs, jobsClosed, jobCap, results,
                   resultsClosed, resCap, coordinator, flaggedUsers, enqueued,
                   produced, jobsCloses, resultsCloses, panicked, slices>>

\* for job := range jobs: a job is received
Worker_Receive(w) ==
    /\ evaluator = "worker"
    /\ w \in BagToSet(workers)
    /\ w.pc = "recv"
    /\ userJobs # <<>>
    /\ workers' = WorkerMoves(w, [pc |-> "select", job |-> Head(userJobs),
                                   result |-> NoResult])
    /\ received' = [received EXCEPT ![Head(userJobs).UserID] = @ + 1]
    /\ lateJobs' = IF cancelled THEN lateJobs \cup {Head(userJobs).UserID}
                   ELSE lateJobs
    /\ userJobs' = Tail(userJobs)
    /\ UNCHANGED <<config, outside, cancelled, pc, userTransactions, pending,
                   producer, jobsClosed, jobCap, results, resultsClosed,
                   resCap, coordinator, flaggedUsers, enqueued, produced,
                   jobsCloses, resultsCloses, panicked, slices>>

\* for job := range jobs: the channel is closed and drained; deferred wg.Done()
Worker_JobsDrained(w) ==
    /\ evaluator = "worker"
    /\ w \in BagToSet(workers)
    /\ w.pc = "recv"
    /\ userJobs = <<>>
    /\ jobsClosed
    /\ workers' = WorkerMoves(w, ExitedWorker)
    /\ UNCHANGED <<config, outside, cancelled, pc, userTransactions, pending,
                   producer, userJobs, jobsClosed, jobCap, results,
                   resultsClosed, resCap, coordinator, flaggedUsers, enqueued,
                   received, produced, jobsCloses, resultsCloses, panicked,
                   lateJobs, slices>>

\* Mutation: the job is processed without looking at ctx.Done().
Worker_Select_IgnoresCancel(w) ==
    /\ evaluator = "worker"
    /\ w \in BagToSet(workers)
    /\ w.pc = "select"
    /\ workers' = WorkerMoves(w,
          [pc |-> "send", job |-> NoJob,
           result |-> WorkerVelocityProcessor_processUser(
                          Periods, w.job.UserID, w.job.Transactions)])
    /\ userTransactions' =
          [userTransactions EXCEPT ![w.job.UserID] = sortByCreatedAt(@)]
    /\ transactions' = sortWrite(transactions, sliceOf(slices, w.job.UserID),
                                 w.job.Transactions)
    /\ UNCHANGED <<evaluator, workerCountArg, Periods, WorkerCount, outside,
                   cancelled, pc, pending, producer, userJobs, jobsClosed,
                   jobCap, results, resultsClosed, resCap, coordinator,
                   flaggedUsers, enqueued, received, produced, jobsCloses,
                   resultsCloses, panicked, lateJobs, slices>>

\* select { case <-ctx.Done(): return; default: result := v.processUser(...) }
Worker_Select(w) ==
    /\ evaluator = "worker"
    /\ w \in BagToSet(workers)
    /\ w.pc = "select"
    /\ workers' = WorkerMoves(w,
          IF cancelled
          THEN ExitedWorker
          ELSE [pc |-> "send", job |-> NoJob,
                result |-> WorkerVelocityProcessor_processUser(
                               Periods, w.job.UserID, w.job.Transactions)])
    /\ userTransactions' =
          IF cancelled THEN userTransactions
          ELSE [userTransactions EXCEPT
                   ![w.job.UserID] = sortByCreatedAt(@)]
    /\ transactions' = IF cancelled THEN transactions
                       ELSE sortWrite(transactions, sliceOf(slices, w.job.UserID),
                                 w.job.Transactions)
    /\ UNCHANGED <<evaluator, workerCountArg, Periods, WorkerCount, outside,
                   cancelled, pc, pending, producer, userJobs, jobsClosed,
                   jobCap, results, resultsClosed, resCap, coordinator,
                   flaggedUsers, enqueued, received, produced, jobsCloses,
                   resultsCloses, panicked, lateJobs, slices>>

\* select { case results <- result: ... }
\* (a send on a closed channel is ready at once, and panics)
Worker_SendResult(w) ==
    /\ evaluator = "worker"
    /\ w \in BagToSet(workers)
    /\ w.pc = "send"
    /\ resultsClosed \/ Len(results) < resCap
    /\ results' = IF resultsClosed THEN results ELSE Append(results, w.result)
    /\ produced' = IF resultsClosed THEN produced
                   ELSE [produced EXCEPT ![w.result.UserID] = @ + 1]
    /\ panicked' = (panicked \/ resultsClosed)
    /\ workers' = WorkerMoves(w, IdleWorker)
    /\ UNCHANGED <<config, outside, cancelled, pc, userTransactions, pending,
                   producer, userJobs, jobsClosed, jobCap, resultsClosed,
                   resCap, coordinator, flaggedUsers, enqueued, received,
                   jobsCloses, resultsCloses, lateJobs, slices>>

\* select { ... case <-ctx.Done(): return }
Worker_SendResultCancelled(w) ==
    /\ evaluator = "worker"
    /\ w \in BagToSet(workers)
    /\ w.pc = "send"
    /\ cancelled
    /\ workers' = WorkerMoves(w, ExitedWorker)
    /\ UNCHANGED <<config, outside, cancelled, pc, userTransactions, pending,
                   producer, userJobs, jobsClosed, jobCap, results,
                   resultsClosed, resCap, coordinator, flaggedUsers, enqueued,
                   received, produced, jobsCloses, resultsCloses, panicked,
                   lateJobs, slices>>

\* Mutation: close(results) without waiting for the workers.
Worker_Coordinator_NoWait ==
    /\ evaluator = "worker"
    /\ coordinator = "wait"
    /\ resultsClosed' = TRUE
    /\ resultsCloses' = resultsCloses + 1
    /\ panicked' = (panicked \/ resultsClosed)
    /\ coordinator' = "exit"
    /\ UNCHANGED <<config, outside, cancelled, pc, userTransactions, pending,
                   producer, userJobs, jobsClosed, jobCap, results, resCap,
                   workers, flaggedUsers, enqueued, received, produced,
                   jobsCloses, lateJobs, slices>>

\* wg.Wait(); close(results)
Worker_Coordinator ==
    /\ evaluator = "worker"
    /\ coordinator = "wait"
    /\ \A w \in BagToSet(workers) : w.pc = "exit"
    /\ resultsClosed' = TRUE
    /\ resultsCloses' = resultsCloses + 1
    /\ panicked' = (panicked \/ resultsClosed)
    /\ coordinator' = "exit"
    /\ UNCHANGED <<config, outside, cancelled, pc, userTransactions, pending,
                   producer, userJobs, jobsClosed, jobCap, results, resCap,
                   workers, flaggedUsers, enqueued, received, produced,
                   jobsCloses, lateJobs, slices>>

\* Mutation: every result is folded in, HasViolation is not read.
Worker_Aggregate_Unconditional ==
    /\ evaluator = "worker"
    /\ pc = "aggregate"
    /\ results # <<>>
    /\ flaggedUsers' = flaggedUsers \cup {Head(results).UserID}
    /\ results' = Tail(results)
    /\ UNCHANGED <<config, outside, cancelled, pc, userTransactions, pending,
                   producer, userJobs, jobsClosed, jobCap, resultsClosed,
                   resCap, workers, coordinator, enqueued, received, produced,
                   jobsCloses, resultsCloses, panicked, lateJobs, slices>>

\* for result := range results { if result.HasViolation { flaggedUsers[...] } }
Worker_Aggregate ==
    /\ evaluator = "worker"
    /\ pc = "aggregate"
    /\ results # <<>>
    /\ flaggedUsers' = IF Head(results).HasViolation
                       THEN flaggedUsers \cup {Head(results).UserID}
                       ELSE flaggedUsers
    /\ results' = Tail(results)
    /\ UNCHANGED <<config, outside, cancelled, pc, userTransactions, pending,
                   producer, userJobs, jobsClosed, jobCap, resultsClosed,
                   resCap, workers, coordinator, enqueued, received, produced,
                   jobsCloses, resultsCloses, panicked, lateJobs, slices>>

\* the result channel is closed and drained: return flaggedUsers
Worker_Return ==
    /\ evaluator = "worker"
    /\ pc = "aggregate"
    /\ results = <<>>
    /\ resultsClosed
    /\ pc' = "done"
    /\ UNCHANGED <<config, outside, cancelled, userTransactions, pending,
                   producer, userJobs, jobsClosed, jobCap, results,
                   resultsClosed, resCap, workers, coordinator, flaggedUsers,
                   enqueued, received, produced, jobsCloses, resultsCloses,
                   panicked, lateJobs, slices>>

(***************************************************************************)
(* ConcurrentVelocityProcessor.Process: fanOut makes the job channel and   *)
(* starts the producer (whose map starts empty), process makes the result  *)
(* channel and starts the workers and the coordinator, and the caller      *)
(* enters fanIn.  Both channels are made with the capacity of this run.    *)
(***************************************************************************)
\* Mutation: the two channels are made once and shared by every call.
Pipeline_Start_ReusesChannels ==
    /\ evaluator = "pipeline"
    /\ pc = "start"
    /\ userTransactions' = EmptyMap
    /\ slices' = EmptyMap
    /\ pending' = {}
    /\ producer' = "group"
    /\ workers' = StartedWorkers
    /\ coordinator' = "wait"
    /\ flaggedUsers' = {}
    /\ pc' = "aggregate"
    /\ enqueued' = NoneYet /\ received' = NoneYet /\ produced' = NoneYet
    /\ jobsCloses' = 0 /\ resultsCloses' = 0
    /\ lateJobs' = {}
    /\ UNCHANGED <<config, outside, cancelled, userJobs, jobsClosed, jobCap,
                   results, resultsClosed, resCap, panicked>>

Pipeline_Start ==
    /\ evaluator = "pipeline"
    /\ pc = "start"
    /\ userTransactions' = EmptyMap
    /\ slices' = EmptyMap
    /\ pending' = {}
    /\ userJobs' = <<>> /\ jobsClosed' = FALSE
    /\ results' = <<>> /\ resultsClosed' = FALSE
    /\ producer' = "group"
    /\ workers' = StartedWorkers
    /\ coordinator' = "wait"
    /\ flaggedUsers' = {}
    /\ pc' = "aggregate"
    /\ enqueued' = NoneYet /\ received' = NoneYet /\ produced' = NoneYet
    /\ jobsCloses' = 0 /\ resultsCloses' = 0
    /\ lateJobs' = {}
    /\ UNCHANGED <<config, outside, cancelled, jobCap, resCap, panicked>>

\* the number of transactions the producer's grouping loop has consumed
RECURSIVE sumLen(_, _)
sumLen(m, S) ==
    IF S = {} THEN 0
    ELSE LET u == CHOOSE x \in S : TRUE
         IN Len(m[u]) + sumLen(m, S \ {u})

grouped == sumLen(userTransactions, DOMAIN userTransactions)

\* Mutation: the slice of a new key starts as transactions[:0], a view of
\* the caller's array with room for the whole input, instead of nil.
Pipeline_Group_ReslicesInput ==
    /\ evaluator = "pipeline"
    /\ producer = "group"
    /\ grouped < Len(transactions)
    /\ LET tx == transactions[grouped + 1]
           s == IF tx.UserID \in DOMAIN slices THEN slices[tx.UserID]
                ELSE [array |-> "caller", off |-> 1, cap |-> Len(transactions)]
           len == IF tx.UserID \in DOMAIN userTransactions
                  THEN Len(userTransactions[tx.UserID]) ELSE 0
       IN /\ userTransactions' = groupByUser(<<tx>>, userTransactions)
          /\ slices' = [u \in DOMAIN slices \cup {tx.UserID} |->
                          IF u = tx.UserID THEN appendHeader(s, len)
                          ELSE slices[u]]
          /\ transactions' = appendWrite(transactions, s, len, tx)
    /\ UNCHANGED <<evaluator, workerCountArg, Periods, WorkerCount, outside,
                   cancelled, pc, pending, producer, userJobs,
                   jobsClosed, jobCap, results, resultsClosed, resCap, workers,
                   coordinator, flaggedUsers, enqueued, received, produced,
                   jobsCloses, resultsCloses, panicked, lateJobs>>

\* one iteration of the producer's grouping loop
Pipeline_Group ==
    /\ evaluator = "pipeline"
    /\ producer = "group"
    /\ grouped < Len(transactions)
    /\ userTransactions' =
          groupStep(grouped + 1, userTransactions, slices, transactions).m
    /\ slices' =
          groupStep(grouped + 1, userTransactions, slices, transactions).slices
    /\ transactions' =
          groupStep(grouped + 1, userTransactions, slices, transactions).input
    /\ UNCHANGED <<evaluator, workerCountArg, Periods, WorkerCount, outside,
                   cancelled, pc, pending, producer, userJobs,
                   jobsClosed, jobCap, results, resultsClosed, resCap, workers,
                   coordinator, flaggedUsers, enqueued, received, produced,
                   jobsCloses, resultsCloses, panicked, lateJobs>>

\* the grouping loop is over; the sending loop starts to range over the map
Pipeline_GroupDone ==
    /\ evaluator = "pipeline"
    /\ producer = "group"
    /\ grouped = Len(transactions)
    /\ pending' = DOMAIN userTransactions
    /\ producer' = "send"
    /\ UNCHANGED <<config, outside, cancelled, pc, userTransactions, userJobs,
                   jobsClosed, jobCap, results, resultsClosed, resCap, workers,
                   coordinator, flaggedUsers, enqueued, received, produced,
                   jobsCloses, resultsCloses, panicked, lateJobs, slices>>

\* Mutation: a job that finds the queue full is dropped instead of waiting.
Pipeline_SendJob_DropWhenFull(userID) ==
    /\ evaluator = "pipeline"
    /\ producer = "send"
    /\ userID \in pending
    /\ userJobs' = IF Len(userJobs) < jobCap
                   THEN Append(userJobs, [UserID |-> userID,
                                          Transactions |-> userTransactions[userID]])
                   ELSE userJobs
    /\ enqueued' = IF Len(userJobs) < jobCap
                   THEN [enqueued EXCEPT ![userID] = @ + 1]
                   ELSE enqueued
    /\ pending' = pending \ {userID}
    /\ UNCHANGED <<config, outside, cancelled, pc, userTransactions, producer,
                   jobsClosed, jobCap, results, resultsClosed, resCap, workers,
                   coordinator, flaggedUsers, received, produced, jobsCloses,
                   resultsCloses, panicked, lateJobs, slices>>

\* case userJobs <- UserJob{UserID: userID, Transactions: txs}
\* (a send on a closed channel is ready at once, and panics)
Pipeline_SendJob(userID) ==
    /\ evaluator = "pipeline"
    /\ producer = "send"
    /\ userID \in pending
    /\ jobsClosed \/ Len(userJobs) < jobCap
    /\ userJobs' = IF jobsClosed THEN userJobs
                   ELSE Append(userJobs, [UserID |-> userID,
                                          Transactions |-> userTransactions[userID]])
    /\ enqueued' = IF jobsClosed THEN enqueued
                   ELSE [enqueued EXCEPT ![userID] = @ + 1]
    /\ panicked' = (panicked \/ jobsClosed)
    /\ pending' = pending \ {userID}
    /\ UNCHANGED <<config, outside, cancelled, pc, userTransactions, producer,
                   jobsClosed, jobCap, results, resultsClosed, resCap, workers,
                   coordinator, flaggedUsers, received, produced, jobsCloses,
                   resultsCloses, lateJobs, slices>>

\* case <-ctx.Done(): return, and the deferred close(userJobs)
Pipeline_SendJobCancelled ==
    /\ evaluator = "pipeline"
    /\ producer = "send"
    /\ pending # {}
    /\ cancelled
    /\ producer' = "exit"
    /\ jobsClosed' = TRUE
    /\ jobsCloses' = jobsCloses + 1
    /\ panicked' = (panicked \/ jobsClosed)
    /\ UNCHANGED <<config, outside, cancelled, pc, userTransactions, pending,
                   userJobs, jobCap, results, resultsClosed, resCap, workers,
                   coordinator, flaggedUsers, enqueued, received, produced,
                   resultsCloses, lateJobs, slices>>

\* the range loop is over: the deferred close(userJobs)
Pipeline_CloseJobs ==
    /\ evaluator = "pipeline"
    /\ producer = "send"
    /\ pending = {}
    /\ producer' = "exit"
    /\ jobsClosed' = TRUE
    /\ jobsCloses' = jobsCloses + 1
    /\ panicked' = (panicked \/ jobsClosed)
    /\ UNCHANGED <<config, outside, cancelled, pc, userTransactions, pending,
                   userJobs, jobCap, results, resultsClosed, resCap, workers,
                   coordinator, flaggedUsers, enqueued, received, produced,
                   resultsCloses, lateJobs, slices>>

\* Mutation: the job is read and left in the queue.
Pipeline_Receive_LeavesJob(w) ==
    /\ evaluator = "pipeline"
    /\ w \in BagToSet(workers)
    /\ w.pc = "recv"
    /\ userJobs # <<>>
    /\ workers' = WorkerMoves(w, [pc |-> "select", job |-> Head(userJobs),
                                   result |-> NoResult])
    /\ received' = [received EXCEPT ![Head(userJobs).UserID] = @ + 1]
    /\ lateJobs' = IF cancelled THEN lateJobs \cup {Head(userJobs).UserID}
                   ELSE lateJobs
    /\ UNCHANGED <<config, outside, cancelled, pc, userTransactions, pending,
                   producer, userJobs, jobsClosed, jobCap, results,
                   resultsClosed, resCap, coordinator, flaggedUsers, enqueued,
                   produced, jobsCloses, resultsCloses, panicked, slices>>

\* for job := range jobs: a job is received
Pipeline_Receive(w) ==
    /\ evaluator = "pipeline"
    /\ w \in BagToSet(workers)
    /\ w.pc = "recv"
    /\ userJobs # <<>>
    /\ workers' = WorkerMoves(w, [pc |-> "select", job |-> Head(userJobs),
                                   result |-> NoResult])
    /\ received' = [received EXCEPT ![Head(userJobs).UserID] = @ + 1]
    /\ lateJobs' = IF cancelled THEN lateJobs \cup {Head(userJobs).UserID}
                   ELSE lateJobs
    /\ userJobs' = Tail(userJobs)
    /\ UNCHANGED <<config, outside, cancelled, pc, userTransactions, pending,
                   producer, jobsClosed, jobCap, results, resultsClosed,
                   resCap, coordinator, flaggedUsers, enqueued, produced,
                   jobsCloses, resultsCloses, panicked, slices>>

\* for job := range jobs: the channel is closed and drained; deferred wg.Done()
Pipeline_JobsDrained(w) ==
    /\ evaluator = "pipeline"
    /\ w \in BagToSet(workers)
    /\ w.pc = "recv"
    /\ userJobs = <<>>
    /\ jobsClosed
    /\ workers' = WorkerMoves(w, ExitedWorker)
    /\ UNCHANGED <<config, outside, cancelled, pc, userTransactions, pending,
                   producer, userJobs, jobsClosed, jobCap, results,
                   resultsClosed, resCap, coordinator, flaggedUsers, enqueued,
                   received, produced, jobsCloses, resultsCloses, panicked,
                   lateJobs, slices>>

\* Mutation: the job is processed without looking at ctx.Done().
Pipeline_Select_IgnoresCancel(w) ==
    /\ evaluator = "pipeline"
    /\ w \in BagToSet(workers)
    /\ w.pc = "select"
    /\ workers' = WorkerMoves(w,
          [pc |-> "send", job |-> NoJob,
           result |-> ConcurrentVelocityProcessor_processUser(
                          Periods, w.job.UserID, w.job.Transactions)])
    /\ userTransactions' =
          [userTransactions EXCEPT ![w.job.UserID] = sortByCreatedAt(@)]
    /\ transactions' = sortWrite(transactions, sliceOf(slices, w.job.UserID),
                                 w.job.Transactions)
    /\ UNCHANGED <<evaluator, workerCountArg, Periods, WorkerCount, outside,
                   cancelled, pc, pending, producer, userJobs, jobsClosed,
                   jobCap, results, resultsClosed, resCap, coordinator,
                   flaggedUsers, enqueued, received, produced, jobsCloses,
                   resultsCloses, panicked, lateJobs, slices>>

\* select { case <-ctx.Done(): return; default: result := v.processUser(...) }
Pipeline_Select(w) ==
    /\ evaluator = "pipeline"
    /\ w \in BagToSet(workers)
    /\ w.pc = "select"
    /\ workers' = WorkerMoves(w,
          IF cancelled
          THEN ExitedWorker
          ELSE [pc |-> "send", job |-> NoJob,
                result |-> ConcurrentVelocityProcessor_processUser(
                               Periods, w.job.UserID, w.job.Transactions)])
    /\ userTransactions' =
          IF cancelled THEN userTransactions
          ELSE [userTransactions EXCEPT
                   ![w.job.UserID] = sortByCreatedAt(@)]
    /\ transactions' = IF cancelled THEN transactions
                       ELSE sortWrite(transactions, sliceOf(slices, w.job.UserID),
                                 w.job.Transactions)
    /\ UNCHANGED <<evaluator, workerCountArg, Periods, WorkerCount, outside,
                   cancelled, pc, pending, producer, userJobs, jobsClosed,
                   jobCap, results, resultsClosed, resCap, coordinator,
                   flaggedUsers, enqueued, received, produced, jobsCloses,
                   resultsCloses, panicked, lateJobs, slices>>

\* results <- result
\* (a send on a closed channel is ready at once, and panics)
Pipeline_SendResult(w) ==
    /\ evaluator = "pipeline"
    /\ w \in BagToSet(workers)
    /\ w.pc = "send"
    /\ resultsClosed \/ Len(results) < resCap
    /\ results' = IF resultsClosed THEN results ELSE Append(results, w.result)
    /\ produced' = IF resultsClosed THEN produced
                   ELSE [produced EXCEPT ![w.result.UserID] = @ + 1]
    /\ panicked' = (panicked \/ resultsClosed)
    /\ workers' = WorkerMoves(w, IdleWorker)
    /\ UNCHANGED <<config, outside, cancelled, pc, userTransactions, pending,
                   producer, userJobs, jobsClosed, jobCap, resultsClosed,
                   resCap, coordinator, flaggedUsers, enqueued, received,
                   jobsCloses, resultsCloses, lateJobs, slices>>

\* Mutation: the coordinator waits for the workers and forgets close(results).
Pipeline_Coordinator_NoClose ==
    /\ evaluator = "pipeline"
    /\ coordinator = "wait"
    /\ \A w \in BagToSet(workers) : w.pc = "exit"
    /\ coordinator' = "exit"
    /\ UNCHANGED <<config, outside, cancelled, pc, userTransactions, pending,
                   producer, userJobs, jobsClosed, jobCap, results,
                   resultsClosed, resCap, workers, flaggedUsers, enqueued,
                   received, produced, jobsCloses, resultsCloses, panicked,
                   lateJobs, slices>>

\* wg.Wait(); close(results)
Pipeline_Coordinator ==
    /\ evaluator = "pipeline"
    /\ coordinator = "wait"
    /\ \A w \in BagToSet(workers) : w.pc = "exit"
    /\ resultsClosed' = TRUE
    /\ resultsCloses' = resultsCloses + 1
    /\ panicked' = (panicked \/ resultsClosed)
    /\ coordinator' = "exit"
    /\ UNCHANGED <<config, outside, cancelled, pc, userTransactions, pending,
                   producer, userJobs, jobsClosed, jobCap, results, resCap,
                   workers, flaggedUsers, enqueued, received, produced,
                   jobsCloses, lateJobs, slices>>

\* Mutation: every result is folded in, HasViolation is not read.
Pipeline_Aggregate_Unconditional ==
    /\ evaluator = "pipeline"
    /\ pc = "aggregate"
    /\ results # <<>>
    /\ flaggedUsers' = flaggedUsers \cup {Head(results).UserID}
    /\ results' = Tail(results)
    /\ UNCHANGED <<config, outside, cancelled, pc, userTransactions, pending,
                   producer, userJobs, jobsClosed, jobCap, resultsClosed,
                   resCap, workers, coordinator, enqueued, received, produced,
                   jobsCloses, resultsCloses, panicked, lateJobs, slices>>

\* for result := range results { if result.HasViolation { flaggedUsers[...] } }
Pipeline_Aggregate ==
    /\ evaluator = "pipeline"
    /\ pc = "aggregate"
    /\ results # <<>>
    /\ flaggedUsers' = IF Head(results).HasViolation
                       THEN flaggedUsers \cup {Head(results).UserID}
                       ELSE flaggedUsers
    /\ results' = Tail(results)
    /\ UNCHANGED <<config, outside, cancelled, pc, userTransactions, pending,
                   producer, userJobs, jobsClosed, jobCap, resultsClosed,
                   resCap, workers, coordinator, enqueued, received, produced,
                   jobsCloses, resultsCloses, panicked, lateJobs, slices>>

\* the result channel is closed and drained: return flaggedUsers
Pipeline_Return ==
    /\ evaluator = "pipeline"
    /\ pc = "aggregate"
    /\ results = <<>>
    /\ resultsClosed
    /\ pc' = "done"
    /\ UNCHANGED <<config, outside, cancelled, userTransactions, pending,
                   producer, userJobs, jobsClosed, jobCap, results,
                   resultsClosed, resCap, workers, coordinator, flaggedUsers,
                   enqueued, received, produced, jobsCloses, resultsCloses,
                   panicked, lateJobs, slices>>

(***************************************************************************)
(* Next-state relation.                                                    *)
(***************************************************************************)
WorkerPoolNext ==
    \/ Worker_Start
    \/ \E userID \in Users : Worker_SendJob(userID)
    \/ Worker_SendJobCancelled
    \/ Worker_CloseJobs
    \/ \E w \in BagToSet(workers) :
          \/ Worker_Receive(w)
          \/ Worker_JobsDrained(w)
          \/ Worker_Select(w)
          \/ Worker_SendResult(w)
          \/ Worker_SendResultCancelled(w)
    \/ Worker_Coordinator
    \/ Worker_Aggregate
    \/ Worker_Return

PipelineNext ==
    \/ Pipeline_Start
    \/ Pipeline_Group
    \/ Pipeline_GroupDone
    \/ \E userID \in Users : Pipeline_SendJob(userID)
    \/ Pipeline_SendJobCancelled
    \/ Pipeline_CloseJobs
    \/ \E w \in BagToSet(workers) :
          \/ Pipeline_Receive(w)
          \/ Pipeline_JobsDrained(w)
          \/ Pipeline_Select(w)
          \/ Pipeline_SendResult(w)
    \/ Pipeline_Coordinator
    \/ Pipeline_Aggregate
    \/ Pipeline_Return

Next ==
    \/ Cancel
    \/ Sequential_Group
    \/ Sequential_Process
    \/ WorkerPoolNext
    \/ PipelineNext

Spec == Init /\ [][Next]_vars

(***************************************************************************)
(* Scheduling.  The Go scheduler runs every goroutine that can take a      *)
(* step; the caller of Process cancels the context or not as it likes.     *)
(* Every step of a call moves some goroutine forward in its code and no    *)
(* goroutine loops without consuming a job or a result, so weak fairness   *)
(* of the workers' steps taken together lets no enabled worker starve.     *)
(***************************************************************************)
CallerStep ==
    \/ Sequential_Group \/ Sequential_Process
    \/ Worker_Start \/ Worker_Aggregate \/ Worker_Return
    \/ Pipeline_Start \/ Pipeline_Aggregate \/ Pipeline_Return

ProducerStep ==
    \/ \E userID \in Users : Worker_SendJob(userID)
    \/ Worker_SendJobCancelled \/ Worker_CloseJobs
    \/ Pipeline_Group \/ Pipeline_GroupDone
    \/ \E userID \in Users : Pipeline_SendJob(userID)
    \/ Pipeline_SendJobCancelled \/ Pipeline_CloseJobs

WorkerStep ==
  \E w \in BagToSet(workers) :
    \/ Worker_Receive(w) \/ Worker_JobsDrained(w) \/ Worker_Select(w)
    \/ Worker_SendResult(w) \/ Worker_SendResultCancelled(w)
    \/ Pipeline_Receive(w) \/ Pipeline_JobsDrained(w) \/ Pipeline_Select(w)
    \/ Pipeline_SendResult(w)

CoordinatorStep == Worker_Coordinator \/ Pipeline_Coordinator

Fairness ==
    /\ WF_vars(CallerStep)
    /\ WF_vars(ProducerStep)
    /\ WF_vars(CoordinatorStep)
    /\ WF_vars(WorkerStep)

\* The calls checked for termination: the same processors, periods, worker
\* counts and capacities, on the batches of at most LiveMaxTx transactions.
InitLive ==
    /\ transactions \in SeqsUpTo(Transaction, LiveMaxTx)
    /\ Periods \in PeriodLists
    /\ (InitSequential \/ InitWorker \/ InitPipeline)
    /\ NotStarted
    /\ FirstCall
    /\ NoEngine

SpecLive == InitLive /\ [][Next]_vars /\ Fairness

(***************************************************************************)
(* Two calls in succession: Process is called again on the same processor  *)
(* value with the same transactions, once the first call has returned      *)
(* without cancellation.  Whatever the first call left behind (its map,    *)
(* channels and goroutines) is garbage the second call never reads: every  *)
(* local is made anew at the start of Process.                             *)
(***************************************************************************)
Process_Again ==
    /\ pc = "done"
    /\ calls = 1
    /\ ~cancelled
    /\ calls' = 2
    /\ firstResult' = flaggedUsers
    /\ pc' = "start"
    /\ UNCHANGED <<config, validators, processors, added, cancelled,
                   userTransactions, pending, producer, userJobs, jobsClosed,
                   jobCap, results, resultsClosed, resCap, workers,
                   coordinator, flaggedUsers, enqueued, received, produced,
                   jobsCloses, resultsCloses, panicked, lateJobs, slices>>

NextTwice == Next \/ Process_Again

SpecTwice == InitLive /\ [][NextTwice]_vars

(***************************************************************************)
(* RuleEngine: built by NewRuleEngine from a slice of processors, then     *)
(* extended by AddRuleProcessor.  A processor is represented by the name   *)
(* of its type; no evaluator runs in this specification.                   *)
(***************************************************************************)
RuleProcessor ==
    {"TransactionAmountProcessor", "CountryBlackListProcessor", "VelocityProcessor"}

\* return &RuleEngine{processors: make([]RuleProcessor, 0)}
NewRuleEngine(vs) == <<>>

InitEngine ==
    /\ validators \in SeqsUpTo(RuleProcessor, MaxValidators)
    /\ processors = NewRuleEngine(validators)
    /\ added = <<>>
    /\ FirstCall
    /\ transactions = <<>>
    /\ Periods = <<>>
    /\ InitSequential
    /\ NotStarted

\* r.processors = append(r.processors, processor)
AddRuleProcessor(processor) ==
    /\ Len(added) < MaxAdds
    /\ processors' = Append(processors, processor)
    /\ added' = Append(added, processor)
    /\ UNCHANGED <<config, calls, firstResult, validators, lateJobs, cancelled,
                   pc, userTransactions, pending, producer, userJobs,
                   jobsClosed, jobCap, results, resultsClosed, resCap, workers,
                   coordinator, flaggedUsers, enqueued, received, produced,
                   jobsCloses, resultsCloses, panicked, slices>>

NextEngine == \E processor \in RuleProcessor : AddRuleProcessor(processor)

SpecEngine == InitEngine /\ [][NextEngine]_vars

Concurrent == evaluator \in {"worker", "pipeline"}
Returned == pc = "done"
SequentialResult == VelocityProcessor_Process(Periods, transactions)
DistinctUsers == {transactions[i].UserID : i \in 1..Len(transactions)}

(***************************************************************************)
(* The velocity rule on its own: the sequential processor applied to       *)
(* larger batches and period lists, negative durations and thresholds      *)
(* included (NewVelocityPeriod accepts them).                              *)
(***************************************************************************)
RuleTransaction == [UserID : Users, CreatedAt : 0..RuleMaxTime]
RuleVelocityPeriod == {NewVelocityPeriod(d, t) : d \in (-1)..RuleMaxDuration,
                                                 t \in (-1)..RuleMaxThreshold}

InitRule ==
    /\ transactions \in SeqsUpTo(RuleTransaction, RuleMaxTx)
    /\ Periods \in SeqsUpTo(RuleVelocityPeriod, RuleMaxPeriods)
    /\ InitSequential
    /\ NotStarted
    /\ FirstCall
    /\ NoEngine

NextRule == Sequential_Group \/ Sequential_Process

SpecRule == InitRule /\ [][NextRule]_vars

(***************************************************************************)
(* Claims.                                                                 *)
(***************************************************************************)

\* C1: with a positive worker count and a context that is never cancelled,
\* the worker-pool and the pipeline Process return, under every interleaving,
\* exactly the set the sequential VelocityProcessor.Process returns.
C1_ConcurrentEqualsSequential ==
    (Returned /\ Concurrent /\ WorkerCount > 0 /\ ~cancelled)
        => flaggedUsers = SequentialResult

C1_Witness ==
    /\ Returned /\ ~cancelled
    /\ evaluator = "pipeline" /\ WorkerCount = 2
    /\ Cardinality(DistinctUsers) = 2
    /\ Cardinality(flaggedUsers) = 1

\* C2: every call of the worker-pool and of the pipeline Process eventually
\* returns, whether or not the context is cancelled during the call: all
\* workers have exited, the result queue is closed and the aggregation loop
\* has ended.
C2_ProcessReturns ==
    Concurrent => <>(/\ Returned
                     /\ resultsClosed
                     /\ \A w \in BagToSet(workers) : w.pc = "exit")

C2_Witness ==
    /\ Returned /\ Concurrent /\ cancelled
    /\ \A w \in BagToSet(workers) : w.pc = "exit"
    /\ resultsClosed
    /\ Cardinality(DistinctUsers) = 2

\* C3: a user is flagged if and only if, for some configured period, strictly
\* more than Threshold of the user's transactions have timestamps that lie
\* pairwise within Duration of each other (a span of exactly Duration counts).
UserIndices(u) == {i \in 1..Len(transactions) : transactions[i].UserID = u}

WithinSpan(S, duration) ==
    \A i, j \in S : transactions[i].CreatedAt - transactions[j].CreatedAt <= duration

BruteForceViolation(u) ==
    /\ UserIndices(u) # {}
    /\ \E k \in 1..Len(Periods) : \E S \in SUBSET UserIndices(u) :
          /\ Cardinality(S) > Periods[k].Threshold
          /\ WithinSpan(S, Periods[k].Duration)

C3_SlidingWindowIsBruteForce ==
    Returned => \A u \in Users : (u \in flaggedUsers <=> BruteForceViolation(u))

\* a user flagged by exactly Threshold+1 transactions spanning exactly Duration,
\* next to a user with exactly Threshold transactions who is not flagged
C3_Witness ==
    /\ Returned
    /\ Len(Periods) = 1 /\ Periods[1].Duration = 1 /\ Periods[1].Threshold = 1
    /\ \E u \in flaggedUsers :
          /\ Cardinality(UserIndices(u)) = 2
          /\ \E i, j \in UserIndices(u) :
                transactions[i].CreatedAt - transactions[j].CreatedAt = 1
    /\ \E u \in Users \ flaggedUsers : Cardinality(UserIndices(u)) = 1

\* C4: the flagged set does not depend on the order of the batch: what Process
\* returns for a batch is what the evaluator returns for the batch sorted by
\* timestamp (the sequential result on the sorted batch; the empty set for a
\* pipeline that was given no worker, whatever the order).
C4_OrderInvariant ==
    (Returned /\ ~cancelled) =>
        flaggedUsers =
            IF evaluator = "pipeline" /\ WorkerCount <= 0 THEN {}
            ELSE VelocityProcessor_Process(Periods, sortByCreatedAt(transactions))

C4_Witness ==
    /\ Returned /\ ~cancelled
    /\ evaluator = "worker"
    /\ Len(transactions) = 2
    /\ transactions[1].UserID = transactions[2].UserID
    /\ transactions[1].CreatedAt > transactions[2].CreatedAt
    /\ Periods # <<>> /\ Periods[1].Threshold = 1 /\ Periods[1].Duration = 0
    /\ flaggedUsers = {}

\* C5: each of the three evaluators returns the empty set for an empty batch,
\* and for an empty period list whatever the batch.
C5_EmptyInputEmptyResult ==
    (Returned /\ (transactions = <<>> \/ Periods = <<>>)) => flaggedUsers = {}

C5_Witness ==
    /\ Returned
    /\ evaluator = "pipeline" /\ WorkerCount > 0
    /\ Periods = <<>>
    /\ Len(transactions) = 2
    /\ flaggedUsers = {}

\* C6: a worker-pool processor constructed with a zero or negative workerCount
\* has WorkerCount 4, starts 4 workers, and (without cancellation) returns the
\* sequential result.
C6_WorkerCountDefault ==
    (evaluator = "worker" /\ workerCountArg <= 0) =>
        /\ WorkerCount = 4
        /\ pc # "start" => BagCardinality(workers) = 4
        /\ (Returned /\ ~cancelled) => flaggedUsers = SequentialResult

C6_Witness ==
    /\ evaluator = "worker" /\ workerCountArg <= 0
    /\ Returned /\ ~cancelled
    /\ BagCardinality(workers) = 4
    /\ flaggedUsers # {}

\* C7: a pipeline processor constructed with a zero or negative workerCount
\* runs with a positive worker count and (without cancellation) returns the
\* sequential result, violating users included.
C7_PipelineWorkerCountDefault ==
    (evaluator = "pipeline" /\ workerCountArg <= 0) =>
        /\ WorkerCount > 0
        /\ (Returned /\ ~cancelled) => flaggedUsers = SequentialResult

\* C8: for every positive capacity of the two queues and every positive worker
\* count, a pipeline call whose context is never cancelled returns, and it
\* returns the sequential result.
C8_CapacityIsNotCorrectness ==
    (evaluator = "pipeline" /\ WorkerCount > 0) =>
        <>(cancelled \/ (Returned /\ flaggedUsers = SequentialResult))

C8_Witness ==
    /\ evaluator = "pipeline" /\ WorkerCount > 0
    /\ Returned /\ ~cancelled
    /\ jobCap = 1 /\ resCap = 1
    /\ Cardinality(DistinctUsers) = 2
    /\ Cardinality(flaggedUsers) = 2

\* C9: cancelled or not, the set returned by the worker-pool or the pipeline
\* Process contains only users the sequential evaluation flags.
C9_CancelledResultIsSubset ==
    (Returned /\ Concurrent) => flaggedUsers \subseteq SequentialResult

C9_Witness ==
    /\ Returned /\ Concurrent /\ cancelled
    /\ flaggedUsers # {}
    /\ flaggedUsers # SequentialResult

\* C10: every goroutine started by Process (job producer, workers,
\* coordinator) eventually exits, for every worker count and every number of
\* users relative to the queue capacity, with or without cancellation.
AllGoroutinesExited ==
    /\ producer = "exit"
    /\ coordinator = "exit"
    /\ \A w \in BagToSet(workers) : w.pc = "exit"

C10_NoGoroutineLeak == Concurrent => <>AllGoroutinesExited

(***************************************************************************)
(* C11.  Monotonicity: for every evaluator, a user flagged for a batch B   *)
(* is still flagged for every batch obtained by adding transactions to B   *)
(* (anywhere in the sequence, for any user) with the same periods.  The    *)
(* batch of the run is the larger one; B ranges over its sub-batches, and  *)
(* what the evaluator of the run returns on B is computed with that        *)
(* evaluator's own grouping, sort and rule.                                *)
(***************************************************************************)
SubBatch(I) ==
    LET F[n \in 0..Len(transactions)] ==
            IF n = 0 THEN <<>>
            ELSE IF n \in I THEN Append(F[n - 1], transactions[n])
                 ELSE F[n - 1]
    IN F[Len(transactions)]

EvaluatorResult(b) ==
    LET m == groupByUser(b, EmptyMap)
    IN CASE evaluator = "sequential" -> VelocityProcessor_Process(Periods, b)
         [] evaluator = "worker" ->
              {u \in DOMAIN m :
                 WorkerVelocityProcessor_processUser(Periods, u, m[u]).HasViolation}
         [] evaluator = "pipeline" ->
              IF WorkerCount <= 0 THEN {}
              ELSE {u \in DOMAIN m :
                      ConcurrentVelocityProcessor_processUser(Periods, u, m[u]).HasViolation}

C11_Monotonicity ==
    (Returned /\ ~cancelled)
        => \A I \in SUBSET (1..Len(transactions)) :
               EvaluatorResult(SubBatch(I)) \subseteq flaggedUsers

\* a worker-pool run of three transactions returned; two of them alone
\* already flag a user
C11_Witness ==
    /\ Returned /\ ~cancelled
    /\ evaluator = "worker"
    /\ Len(transactions) = 3
    /\ \E I \in SUBSET (1..3) :
          /\ Cardinality(I) = 2
          /\ EvaluatorResult(SubBatch(I)) # {}
          /\ EvaluatorResult(SubBatch(I)) \subseteq flaggedUsers

(***************************************************************************)
(* C12.  Idempotence: a second call of Process on the same evaluator with  *)
(* the same transactions and periods, neither call cancelled, returns the  *)
(* set the first call returned.                                            *)
(***************************************************************************)
C12_Idempotent ==
    (calls = 2 /\ Returned /\ ~cancelled) => flaggedUsers = firstResult

\* the second call of a concurrent evaluator returned, and the first had
\* flagged somebody
C12_Witness ==
    /\ calls = 2 /\ Returned /\ ~cancelled
    /\ Concurrent /\ WorkerCount > 0
    /\ firstResult # {}
    /\ flaggedUsers = firstResult

(***************************************************************************)
(* C13.  One UserResult per user: in the worker-pool and pipeline          *)
(* evaluators no user ever has more than one UserResult sent on the result *)
(* channel, cancelled or not; and when the result channel is closed in a   *)
(* run with a positive worker count whose context was never cancelled,     *)
(* exactly one UserResult has been sent for each distinct user of the      *)
(* input and none for anybody else.                                        *)
(***************************************************************************)
C13_OneResultPerUser ==
    Concurrent =>
        /\ \A u \in Users : produced[u] <= 1
        /\ (resultsClosed /\ ~cancelled /\ WorkerCount > 0)
              => \A u \in Users :
                     produced[u] = IF u \in DistinctUsers THEN 1 ELSE 0

\* the pipeline closed its result channel, uncancelled, after one result
\* for each of two users
C13_Witness ==
    /\ evaluator = "pipeline" /\ WorkerCount > 0
    /\ resultsClosed /\ ~cancelled
    /\ Cardinality(DistinctUsers) = 2
    /\ \A u \in DistinctUsers : produced[u] = 1

(***************************************************************************)
(* C14.  Exclusive ownership: in the worker-pool and pipeline evaluators   *)
(* each UserJob is received at most once, so no user's transactions are    *)
(* held by two workers, neither at the same time nor one after the other,  *)
(* and a job still in the queue is held by nobody.                         *)
(***************************************************************************)
Holders(u) == {w \in BagToSet(workers) : w.job # NoJob /\ w.job.UserID = u}

C14_ExclusiveOwnership ==
    Concurrent =>
        \A u \in Users :
            /\ received[u] <= 1
            /\ Cardinality(Holders(u)) <= 1
            /\ \A w \in Holders(u) :
                  CopiesIn(w, workers) = 1 /\ received[u] = 1
            /\ (\E i \in 1..Len(userJobs) : userJobs[i].UserID = u)
                  => received[u] = 0 /\ Holders(u) = {}

\* two workers of the pool hold the jobs of two different users at once
C14_Witness ==
    /\ evaluator = "worker"
    /\ \E u1, u2 \in Users :
          /\ u1 # u2
          /\ Holders(u1) # {} /\ Holders(u2) # {}
          /\ received[u1] = 1 /\ received[u2] = 1

(***************************************************************************)
(* C15.  Close ordering: in both concurrent evaluators each channel is     *)
(* closed at most once, and exactly once by the time its closer has        *)
(* exited; the result channel is closed by the coordinator, only after     *)
(* every worker has exited; the job channel is closed by its producer,     *)
(* which sends nothing afterwards; and no send on a closed channel and no  *)
(* second close ever runs, with or without cancellation.                   *)
(***************************************************************************)
C15_CloseOrdering ==
    Concurrent =>
        /\ ~panicked
        /\ resultsCloses = (IF resultsClosed THEN 1 ELSE 0)
        /\ jobsCloses = (IF jobsClosed THEN 1 ELSE 0)
        /\ resultsClosed <=> coordinator = "exit"
        /\ resultsClosed => \A w \in BagToSet(workers) : w.pc = "exit"
        /\ jobsClosed <=> producer = "exit"
        /\ Returned => resultsCloses = 1

\* a cancelled pipeline run in which a result had been sent before both
\* channels were closed
C15_Witness ==
    /\ evaluator = "pipeline"
    /\ cancelled
    /\ resultsClosed /\ jobsClosed
    /\ resultsCloses = 1 /\ jobsCloses = 1
    /\ \E u \in Users : produced[u] = 1
    /\ \E u \in Users : received[u] = 1 /\ produced[u] = 0

(***************************************************************************)
(* C16.  Worker-pool capacities: once Process has made its channels, the   *)
(* job channel and the result channel both have capacity equal to the      *)
(* number of distinct users; neither ever holds more than that; and        *)
(* whenever the job sender is at its send, or a worker at its result send, *)
(* the channel has a free slot, so the send does not wait for space.       *)
(***************************************************************************)
C16_WorkerQueuesNeverFull ==
    (evaluator = "worker" /\ pc # "start") =>
        /\ jobCap = Cardinality(DistinctUsers)
        /\ resCap = Cardinality(DistinctUsers)
        /\ Len(userJobs) <= jobCap
        /\ Len(results) <= resCap
        /\ (producer = "send" /\ pending # {}) => Len(userJobs) < jobCap
        /\ \A w \in BagToSet(workers) : w.pc = "send" => Len(results) < resCap

\* every job of a two-user batch sits in the job channel, which is then
\* filled to its capacity, with the sender done
C16_Witness ==
    /\ evaluator = "worker"
    /\ Cardinality(DistinctUsers) = 2
    /\ Len(userJobs) = 2 /\ jobCap = 2
    /\ pending = {}

(***************************************************************************)
(* C17.  No new job is started after cancellation: in the worker-pool and  *)
(* pipeline evaluators a job that a worker receives once the context is    *)
(* cancelled is never evaluated and gets no UserResult (none held by a     *)
(* worker, none sent); and every step a worker takes out of its select in  *)
(* a cancelled state is its exit, which is final, so it receives no        *)
(* further job.                                                            *)
(***************************************************************************)
AtPc(p) ==
    LET S == {w \in BagToSet(workers) : w.pc = p}
    IN BagCardinality([w \in S |-> CopiesIn(w, workers)])

NotEvaluated(u) ==
    /\ produced[u] = 0
    /\ \A i \in 1..Len(results) : results[i].UserID # u
    /\ \A w \in BagToSet(workers) : w.pc = "send" => w.result.UserID # u

C17_NoNewJobAfterCancel ==
    [][Concurrent =>
          /\ \A u \in lateJobs : NotEvaluated(u)
          /\ \A u \in lateJobs' : NotEvaluated(u)'
          /\ cancelled =>
                /\ AtPc("send")' <= AtPc("send")
                /\ AtPc("exit")' >= AtPc("exit")
                /\ AtPc("select")' < AtPc("select")
                      => /\ AtPc("exit")' = AtPc("exit") + 1
                         /\ produced' = produced
                         /\ results' = results]_vars

\* a job received after the cancellation was dropped: its worker has left
\* its select and exited, while another user's result had been sent
C17_Witness ==
    /\ evaluator = "pipeline"
    /\ cancelled
    /\ \E u \in lateJobs :
          /\ Holders(u) = {}
          /\ NotEvaluated(u)
          /\ AtPc("exit") >= 1
          /\ \E u2 \in Users \ {u} : produced[u2] = 1

(***************************************************************************)
(* C18.  Partitioning is a total, collision-free grouping in all three     *)
(* evaluators: the map built from the input has exactly the distinct users *)
(* as keys and under each key that user's transactions, all of them, once  *)
(* each, in input order until a worker sorts that user's slice in place    *)
(* (the job and the map share the array) and in ascending CreatedAt from   *)
(* then on; while the pipeline's producer is still grouping, its map is    *)
(* that grouping of the prefix consumed so far; every UserJob queued or    *)
(* held carries its own user's slice as grouped; and at most one job is    *)
(* sent per user, exactly one per distinct user once the producer has      *)
(* finished uncancelled.                                                   *)
(***************************************************************************)
OfUser(txs, u) ==
    LET mine(tx) == tx.UserID = u
    IN SelectSeq(txs, mine)

PartitionOf(txs) ==
    [u \in {txs[i].UserID : i \in 1..Len(txs)} |-> OfUser(txs, u)]

GroupingDone ==
    \/ evaluator = "sequential" /\ pc = "evaluate"
    \/ evaluator = "worker" /\ pc # "start"
    \/ evaluator = "pipeline" /\ producer \in {"send", "exit"}

\* no worker has taken u's slice past its select yet
NotYetSorted(u) ==
    \/ evaluator = "sequential"
    \/ received[u] = 0
    \/ Holders(u) # {}

C18_Partitioning ==
    /\ GroupingDone =>
          /\ DOMAIN userTransactions = DistinctUsers
          /\ \A u \in DistinctUsers :
                IF NotYetSorted(u)
                THEN userTransactions[u] = OfUser(transactions, u)
                ELSE userTransactions[u] \in
                        {OfUser(transactions, u),
                         sortByCreatedAt(OfUser(transactions, u))}
    /\ (evaluator = "pipeline" /\ producer = "group")
          => userTransactions = PartitionOf(SubSeq(transactions, 1, grouped))
    /\ Concurrent =>
          /\ \A i \in 1..Len(userJobs) :
                userJobs[i].Transactions
                    = PartitionOf(transactions)[userJobs[i].UserID]
          /\ \A w \in BagToSet(workers) :
                w.job # NoJob
                    => w.job.Transactions = PartitionOf(transactions)[w.job.UserID]
          /\ \A u \in Users :
                enqueued[u] <= (IF u \in DistinctUsers THEN 1 ELSE 0)
          /\ (producer = "exit" /\ ~cancelled)
                => \A u \in DistinctUsers : enqueued[u] = 1

\* the pipeline's producer has sent the jobs of two users whose
\* transactions alternate in the input
C18_Witness ==
    /\ evaluator = "pipeline"
    /\ producer = "exit" /\ ~cancelled
    /\ Len(transactions) = 3
    /\ transactions[1].UserID = transactions[3].UserID
    /\ transactions[1].UserID # transactions[2].UserID
    /\ \A u \in DistinctUsers : enqueued[u] = 1
    /\ Len(userTransactions[transactions[1].UserID]) = 2

(***************************************************************************)
(* C19.  The pipeline's producer streams each user's job as soon as it is  *)
(* known: while it has not finished grouping the input, a user whose       *)
(* transactions are all in its map already can be sent on the job channel  *)
(* whenever the channel is open and has a free slot.                       *)
(***************************************************************************)
C19_ProducerStreams ==
    \A u \in Users :
        (/\ evaluator = "pipeline"
         /\ producer = "group"
         /\ grouped < Len(transactions)
         /\ u \in DOMAIN userTransactions
         /\ userTransactions[u] = OfUser(transactions, u)
         /\ ~jobsClosed /\ Len(userJobs) < jobCap)
            => ENABLED Pipeline_SendJob(u)

(***************************************************************************)
(* C20.  The RuleEngine holds the ordered collection of its processors:    *)
(* after NewRuleEngine(validators) and any sequence of AddRuleProcessor    *)
(* calls, the engine's collection is validators followed by the added      *)
(* processors in call order, none lost.                                    *)
(***************************************************************************)
C20_EngineHoldsProcessors ==
    processors = validators \o added

(***************************************************************************)
(* C21.  Process does not modify its input: in all three evaluators no     *)
(* step of a call changes the caller's transaction sequence, so at every   *)
(* point of the call and after its return the sequence has the elements    *)
(* it had before the call, in the same order; the appends of the grouping  *)
(* and the per-user sorts write to arrays the grouping allocated.          *)
(***************************************************************************)
C21_InputUnmodified ==
    [][transactions' = transactions]_vars

\* the sequential processor has returned after sorting a user's slice whose
\* input order was not ascending, and a concurrent one has evaluated such
\* a user; the slice that was sorted is over an array append allocated
Unsorted(u) == OfUser(transactions, u) # sortByCreatedAt(OfUser(transactions, u))

C21_Witness ==
    \E u \in DistinctUsers :
        /\ Unsorted(u)
        /\ u \in DOMAIN slices
        /\ slices[u].array = "heap"
        /\ slices[u].cap >= Len(userTransactions[u])
        /\ \/ /\ evaluator = "sequential" /\ Returned
              /\ userTransactions[u] = sortByCreatedAt(OfUser(transactions, u))
           \/ /\ Concurrent /\ Returned /\ ~cancelled
              /\ produced[u] = 1
              /\ userTransactions[u] = sortByCreatedAt(OfUser(transactions, u))

(***************************************************************************)
(* C22.  A context already cancelled when Process is called: the           *)
(* worker-pool and the pipeline evaluator then evaluate no job at all (no  *)
(* worker ever holds a result, none is sent, none is queued), the flagged  *)
(* set stays empty, and Process returns it, for every input, every period  *)
(* list and every worker count, under every interleaving.                  *)
(***************************************************************************)
NoEvaluation ==
    /\ produced = NoneYet
    /\ results = <<>>
    /\ \A w \in BagToSet(workers) : w.pc # "send"
    /\ flaggedUsers = {}

CalledCancelled == Concurrent /\ pc = "start" /\ cancelled

C22_PreCancelledReturnsEmpty ==
    [](CalledCancelled => ([]NoEvaluation /\ <>Returned))

\* a cancelled call has returned the empty set although the same input
\* flags a user when uncancelled; every job was received after the
\* cancellation and dropped
C22_Witness ==
    /\ Concurrent /\ WorkerCount > 0
    /\ cancelled /\ Returned
    /\ SequentialResult # {}
    /\ lateJobs = DistinctUsers
    /\ \A u \in DistinctUsers : received[u] = 1
    /\ NoEvaluation

=============================================================================
